---- MODULE Spec2Model ----
(***************************************************************************)
(* GhostlyGridWorld (ghostly_grid/envs/ghostly_grid_v0.py): a square grid  *)
(* on which one agent walks towards a door while two ghosts walk at        *)
(* random.  The module models the environment object: its constructor,     *)
(* reset(), step(), get_observation(), get_reward(), render() and close(). *)
(*                                                                         *)
(* A numpy array of shape (2,) is a sequence <<x, y>>.  An attribute that  *)
(* has not been assigned yet (the four locations before the first reset)   *)
(* is the empty sequence NoArray.                                          *)
(***************************************************************************)
EXTENDS Integers, Sequences, FiniteSets, TLC

\* ------------------------------------------------------------------ bounds

\* Largest size handed to the constructor (the smallest one is MinSize - 1).
MaxSize == 6

\* Integers tried as the action of step(): -1 .. MaxAction (4 and above are
\* not keys of action_to_direction).
MaxAction == 4

\* The controller gives up an episode that is not done (calls reset() in the
\* middle of it) only before step number MaxAbandon of the episode.
MaxAbandon == 1

\* nsteps counts the steps of an episode up to MaxCount and then stays.
MaxCount == 2

\* Calls made on one environment under SpecCalls.
MaxCalls == 2

\* The size of the environment of the saturation run (scenario A).
SaturateSize == 8

\* Steps the saturation run goes on with after the agent has met the wall.
MaxOver == 2

\* ------------------------------------------------- constants of the program

\* assert self.size >= 6
MinSize == 6

\* ghost boxes that start one cell nearer to the agent
GhostLowNearer == 2 - 1

\* low of the ghost1 and ghost2 boxes
GhostLow == 2

\* spaces.Discrete(4) and np.random.randint(0, 4)
NumActions == 4

NoArray == << >>

None == "None"

\* metadata["render_modes"]
render_modes == {"human", "rgb_array"}

\* Arguments tried for the constructor and for step().
SizeArgs == (MinSize - 1) .. MaxSize

RenderModeArgs == {None, "human", "rgb_array", "ansi"}

ActionArgs == (0 - 1) .. MaxAction

Keys == {"agent", "ghost1", "ghost2", "target"}

VARIABLES
    constructed,        \* TRUE iff __init__ returned (FALSE: it raised)
    size,               \* self.size
    render_mode,        \* self.render_mode
    window,             \* self.window
    clock,              \* self.clock
    _agent_location,    \* self._agent_location
    _ghost1_location,   \* self._ghost1_location
    _ghost2_location,   \* self._ghost2_location
    _target_location,   \* self._target_location
    obs,                \* the observation dict last returned to the caller
    ret,                \* outcome of the last call
    nsteps,             \* steps returned since the last reset (up to MaxCount)
    calls               \* calls made since construction (counted under
                        \* SpecCalls and under the scripted runs)

vars == << constructed, size, render_mode, window, clock,
           _agent_location, _ghost1_location, _ghost2_location,
           _target_location, obs, ret, nsteps, calls >>

locations == << _agent_location, _ghost1_location, _ghost2_location,
                _target_location >>

config == << constructed, size, render_mode >>

\* ---------------------------------------------------------- pure functions

\* np.clip without its upper end
ClipIntNoUpper(v, lo, hi) == IF v < lo THEN lo ELSE v

\* a grid that wraps around instead of stopping at its walls
ClipIntWrap(v, lo, hi) == IF v < lo THEN hi ELSE IF v > hi THEN lo ELSE v

\* np.clip with its upper end left out of the interval
ClipIntExclusive(v, lo, hi) ==
    IF v < lo THEN lo ELSE IF v >= hi THEN hi - 1 ELSE v

\* np.clip(v, lo, hi) on one integer
ClipInt(v, lo, hi) == IF v < lo THEN lo ELSE IF v > hi THEN hi ELSE v

\* np.clip(array, lo, hi): each coordinate on its own
clip(a, lo, hi) == << ClipInt(a[1], lo, hi), ClipInt(a[2], lo, hi) >>

\* array + array
add(a, b) == << a[1] + b[1], a[2] + b[2] >>

\* the table with the two axes taken for one another
action_to_direction_swapped ==
    (0 :> << 0, 1 >>) @@ (1 :> << 1, 0 >>) @@
    (2 :> << 0, 0 - 1 >>) @@ (3 :> << 0 - 1, 0 >>)

\* the table with action 1 going up the y axis instead of down it
action_to_direction_flipped ==
    (0 :> << 1, 0 >>) @@ (1 :> << 0, 0 - 1 >>) @@
    (2 :> << 0 - 1, 0 >>) @@ (3 :> << 0, 1 >>)

\* self.action_to_direction
action_to_direction ==
    (0 :> << 1, 0 >>) @@ (1 :> << 0, 1 >>) @@
    (2 :> << 0 - 1, 0 >>) @@ (3 :> << 0, 0 - 1 >>)

\* np.random.randint(0, 4): the values it can return
randint == 0 .. (NumActions - 1)

\* a sample that can lie one above high
BoxSampleAbove(low, high) == (low .. high + 1) \X (low .. high + 1)

\* spaces.Box(low, high, shape=(2,), dtype=np.int32).sample(): the arrays it
\* can return (both ends included for an integer dtype)
BoxSample(low, high) == (low .. high) \X (low .. high)

\* the floor the assert's message names ("equal to or above 5")
SizeAcceptedFrom5(s) == s >= MinSize - 1

\* the asserts of __init__
SizeAccepted(s) == s >= MinSize

RenderModeAccepted(rm) == rm = None \/ rm \in render_modes

\* np.array_equal
array_equal(a, b) == a = b

\* a catch that does not end the episode
get_reward_catch_goes_on(agent, ghost1, ghost2, target) ==
    IF array_equal(agent, ghost1) \/ array_equal(agent, ghost2)
    THEN << 0 - 1, FALSE >>
    ELSE IF array_equal(agent, target)
         THEN << 1, TRUE >>
         ELSE << 0, FALSE >>

\* the door looked at before the ghosts
get_reward_target_first(agent, ghost1, ghost2, target) ==
    IF array_equal(agent, target)
    THEN << 1, TRUE >>
    ELSE IF array_equal(agent, ghost1) \/ array_equal(agent, ghost2)
         THEN << 0 - 1, TRUE >>
         ELSE << 0, FALSE >>

\* ghost2 left out of the catch
get_reward_ghost1_only(agent, ghost1, ghost2, target) ==
    IF array_equal(agent, ghost1)
    THEN << 0 - 1, TRUE >>
    ELSE IF array_equal(agent, target)
         THEN << 1, TRUE >>
         ELSE << 0, FALSE >>

\* get_reward(): << reward, done >>
get_reward(agent, ghost1, ghost2, target) ==
    IF array_equal(agent, ghost1) \/ array_equal(agent, ghost2)
    THEN << 0 - 1, TRUE >>
    ELSE IF array_equal(agent, target)
         THEN << 1, TRUE >>
         ELSE << 0, FALSE >>

\* the two ghosts under each other's key
get_observation_swapped(agent, ghost1, ghost2, target) ==
    [k \in Keys |->
        [alias |-> TRUE,
         val |-> CASE k = "agent" -> agent
                   [] k = "ghost1" -> ghost2
                   [] k = "ghost2" -> ghost1
                   [] OTHER -> target]]

\* get_observation(): the dict holds the arrays of the environment
\* themselves (alias = TRUE), not copies of them
get_observation(agent, ghost1, ghost2, target) ==
    [k \in Keys |->
        [alias |-> TRUE,
         val |-> CASE k = "agent" -> agent
                   [] k = "ghost1" -> ghost1
                   [] k = "ghost2" -> ghost2
                   [] OTHER -> target]]

NoObs == [k \in Keys |-> [alias |-> FALSE, val |-> NoArray]]

\* Where the episode stands, by the locations and the done flag last returned.
Phase ==
    IF _agent_location = NoArray THEN "AWAITING_RESET"
    ELSE IF ret.done THEN "DONE" ELSE "ACTIVE"

\* The outcome of a call: what was called, the exception it raised ("" when
\* it returned), for step() the reward and done it returned, whether a frame
\* was drawn, for __init__ its arguments and for reset() the phase before it.
Outcome(op, raised, reward, done, drew, a, before) ==
    [op |-> op, raised |-> raised, reward |-> reward, done |-> done,
     drew |-> drew, args |-> a, before |-> before]

Raise(op, exc) == Outcome(op, exc, 0, FALSE, FALSE, << >>, "")

\* step() returning: rd is the pair get_reward() gave
StepOutcome(rd, drew) == Outcome("step", "", rd[1], rd[2], drew, << >>, "")

\* ----------------------------------------------------------- construction

\* __init__(size, render_mode)
Construct(s, rm) ==
    /\ constructed = (SizeAccepted(s) /\ RenderModeAccepted(rm))
    /\ size = s
    /\ render_mode = IF constructed THEN "human" ELSE None
    /\ window = None
    /\ clock = None
    /\ _agent_location = NoArray
    /\ _ghost1_location = NoArray
    /\ _ghost2_location = NoArray
    /\ _target_location = NoArray
    /\ obs = NoObs
    /\ ret = Outcome("__init__", IF constructed THEN "" ELSE "AssertionError",
                     0, FALSE, FALSE, << s, rm >>, "")
    /\ nsteps = 0
    /\ calls = 0

Init == \E s \in SizeArgs, rm \in RenderModeArgs : Construct(s, rm)

\* _render_frame() in human mode: the window and the clock are made on the
\* first frame
RenderFrame ==
    /\ window' = IF window = None /\ render_mode = "human" THEN "window" ELSE window
    /\ clock' = IF clock = None /\ render_mode = "human" THEN "clock" ELSE clock

\* ------------------------------------------------------------------ reset

reset ==
    /\ constructed
    /\ \E a \in BoxSample(0, 0),
          g1 \in BoxSample(GhostLow, size - 1),
          g2 \in BoxSample(GhostLow, size - 1),
          t \in BoxSample(size - 1, size - 1) :
            /\ _agent_location' = a
            /\ _ghost1_location' = g1
            /\ _ghost2_location' = g2
            /\ _target_location' = t
            /\ obs' = get_observation(a, g1, g2, t)
    /\ IF render_mode = "human"
       THEN RenderFrame
       ELSE UNCHANGED << window, clock >>
    /\ ret' = Outcome("reset", "", 0, FALSE, render_mode = "human", << >>, Phase)
    /\ nsteps' = 0
    /\ UNCHANGED config

\* ------------------------------------------------------------------- step

\* the three moves of step(): the direction is added and the sum is clipped
MoveAgent(action) ==
    _agent_location' =
        clip(add(_agent_location, action_to_direction[action]), 0, size - 1)

MoveGhost1(r1) ==
    _ghost1_location' =
        clip(add(_ghost1_location, action_to_direction[r1]), 0, size - 1)

MoveGhost2(r2) ==
    _ghost2_location' =
        clip(add(_ghost2_location, action_to_direction[r2]), 0, size - 1)

\* the lookup of the agent's direction made after a ghost has moved
StepKeyErrorLate(action) ==
    /\ constructed
    /\ action \notin DOMAIN action_to_direction
    /\ _agent_location # NoArray
    /\ \E r1 \in randint : MoveGhost1(r1)
    /\ ret' = Raise("step", "KeyError")
    /\ UNCHANGED << config, window, clock, _agent_location, _ghost2_location,
                    _target_location, obs, nsteps >>

\* step(action) with an action that is no key of action_to_direction: the
\* lookup on the first line raises KeyError
StepKeyError(action) ==
    /\ constructed
    /\ action \notin DOMAIN action_to_direction
    /\ ret' = Raise("step", "KeyError")
    /\ UNCHANGED << config, window, clock, locations, obs, nsteps >>

\* step(action) before the first reset(): reading self._agent_location
\* raises AttributeError
StepBeforeReset(action) ==
    /\ constructed
    /\ action \in DOMAIN action_to_direction
    /\ _agent_location = NoArray
    /\ ret' = Raise("step", "AttributeError")
    /\ UNCHANGED << config, window, clock, locations, obs, nsteps >>

\* step(action) with the reward taken before the moves
StepWithRewardFirst(action, r1, r2) ==
    /\ constructed
    /\ action \in DOMAIN action_to_direction
    /\ _agent_location # NoArray
    /\ MoveAgent(action)
    /\ MoveGhost1(r1)
    /\ MoveGhost2(r2)
    /\ ret' = StepOutcome(get_reward(_agent_location, _ghost1_location,
                                     _ghost2_location, _target_location),
                          render_mode = "human")
    /\ obs' = get_observation(_agent_location', _ghost1_location',
                              _ghost2_location', _target_location)
    /\ IF render_mode = "human"
       THEN RenderFrame
       ELSE UNCHANGED << window, clock >>
    /\ nsteps' = IF nsteps < MaxCount THEN nsteps + 1 ELSE nsteps
    /\ UNCHANGED << config, _target_location >>

\* step(action) with the target moved along with ghost2
StepWithTargetMoved(action, r1, r2) ==
    /\ constructed
    /\ action \in DOMAIN action_to_direction
    /\ _agent_location # NoArray
    /\ MoveAgent(action)
    /\ MoveGhost1(r1)
    /\ MoveGhost2(r2)
    /\ _target_location' =
           clip(add(_target_location, action_to_direction[r2]), 0, size - 1)
    /\ ret' = StepOutcome(get_reward(_agent_location', _ghost1_location',
                                     _ghost2_location', _target_location'),
                          render_mode = "human")
    /\ obs' = get_observation(_agent_location', _ghost1_location',
                              _ghost2_location', _target_location')
    /\ IF render_mode = "human"
       THEN RenderFrame
       ELSE UNCHANGED << window, clock >>
    /\ nsteps' = IF nsteps < MaxCount THEN nsteps + 1 ELSE nsteps
    /\ UNCHANGED config

\* step(action) with one draw made for the two ghosts
StepWithOneDraw(action, r1, r2) ==
    /\ constructed
    /\ action \in DOMAIN action_to_direction
    /\ _agent_location # NoArray
    /\ MoveAgent(action)
    /\ MoveGhost1(r1)
    /\ MoveGhost2(r1)
    /\ ret' = StepOutcome(get_reward(_agent_location', _ghost1_location',
                                     _ghost2_location', _target_location),
                          render_mode = "human")
    /\ obs' = get_observation(_agent_location', _ghost1_location',
                              _ghost2_location', _target_location)
    /\ IF render_mode = "human"
       THEN RenderFrame
       ELSE UNCHANGED << window, clock >>
    /\ nsteps' = IF nsteps < MaxCount THEN nsteps + 1 ELSE nsteps
    /\ UNCHANGED << config, _target_location >>

\* step(action), the two ghost draws being r1 and r2
StepWith(action, r1, r2) ==
    /\ constructed
    /\ action \in DOMAIN action_to_direction
    /\ _agent_location # NoArray
    /\ MoveAgent(action)
    /\ MoveGhost1(r1)
    /\ MoveGhost2(r2)
    /\ ret' = StepOutcome(get_reward(_agent_location', _ghost1_location',
                                     _ghost2_location', _target_location),
                          render_mode = "human")
    /\ obs' = get_observation(_agent_location', _ghost1_location',
                              _ghost2_location', _target_location)
    /\ IF render_mode = "human"
       THEN RenderFrame
       ELSE UNCHANGED << window, clock >>
    /\ nsteps' = IF nsteps < MaxCount THEN nsteps + 1 ELSE nsteps
    /\ UNCHANGED << config, _target_location >>

\* step(action)
step(action) ==
    \/ StepKeyError(action)
    \/ StepBeforeReset(action)
    \/ \E r1 \in randint, r2 \in randint : StepWith(action, r1, r2)

\* ------------------------------------------- the other calls of the class

\* get_observation() called from outside; before the first reset() the
\* locations are no attributes yet
GetObservation ==
    /\ constructed
    /\ IF _agent_location = NoArray
       THEN /\ ret' = Raise("get_observation", "AttributeError")
            /\ obs' = obs
       ELSE /\ ret' = Outcome("get_observation", "", 0, FALSE, FALSE, << >>, "")
            /\ obs' = get_observation(_agent_location, _ghost1_location,
                                      _ghost2_location, _target_location)
    /\ UNCHANGED << config, window, clock, locations, nsteps >>

\* render(): a frame is made in rgb_array mode only, and _render_frame()
\* reads the locations
render ==
    /\ constructed
    /\ ret' = IF render_mode = "rgb_array"
              THEN IF _agent_location = NoArray
                   THEN Raise("render", "AttributeError")
                   ELSE Outcome("render", "", 0, FALSE, TRUE, << >>, "")
              ELSE Outcome("render", "", 0, FALSE, FALSE, << >>, "")
    /\ UNCHANGED << config, window, clock, locations, obs, nsteps >>

\* close(): pygame is shut down when there is a window; no attribute of the
\* environment is assigned
close ==
    /\ constructed
    /\ ret' = Outcome("close", "", 0, FALSE, FALSE, << >>, "")
    /\ UNCHANGED << config, window, clock, locations, obs, nsteps >>

\* --------------------------------------------------------- the controller

\* Array k of the environment after the controller has stored v at index i
\* of array k of the dict it holds: the same array when the dict holds the
\* environment's own array
Stored(k, own, i, v) ==
    IF obs[k].alias THEN [own EXCEPT ![i] = v] ELSE own

\* The controller stores v at index i of array k of the observation it holds.
MutateObservation(k, i, v) ==
    /\ constructed
    /\ obs[k].val # NoArray
    /\ obs' = [obs EXCEPT ![k].val[i] = v]
    /\ _agent_location' =
           IF k = "agent" THEN Stored(k, _agent_location, i, v)
           ELSE _agent_location
    /\ _ghost1_location' =
           IF k = "ghost1" THEN Stored(k, _ghost1_location, i, v)
           ELSE _ghost1_location
    /\ _ghost2_location' =
           IF k = "ghost2" THEN Stored(k, _ghost2_location, i, v)
           ELSE _ghost2_location
    /\ _target_location' =
           IF k = "target" THEN Stored(k, _target_location, i, v)
           ELSE _target_location
    /\ UNCHANGED << config, window, clock, ret, nsteps >>

\* When the controller calls reset(): on a new environment, when the episode
\* is done, or early in an episode
MayReset ==
    IF Phase = "ACTIVE"
    THEN nsteps < MaxAbandon
    ELSE TRUE

Next ==
    \/ MayReset /\ reset /\ UNCHANGED calls
    \/ \E action \in randint : StepBeforeReset(action) /\ UNCHANGED calls
    \/ \E action \in randint, r1 \in randint, r2 \in randint :
           StepWith(action, r1, r2) /\ UNCHANGED calls

Spec == Init /\ [][Next]_vars

\* The environment made with the default arguments, GhostlyGridWorld().
InitDefault == Construct(MinSize, None)

SpecDefault == InitDefault /\ [][Next]_vars

\* Every call of the class and the controller's stores into the observation
\* it holds, MaxCalls of them on an environment of the smallest size or on
\* one that was refused.
InitCalls ==
    \E s \in (MinSize - 1) .. MinSize, rm \in RenderModeArgs : Construct(s, rm)

Counted == calls < MaxCalls /\ calls' = calls + 1

NextCalls ==
    \/ Counted /\ reset
    \/ \E action \in ActionArgs : Counted /\ StepKeyError(action)
    \/ \E action \in ActionArgs : Counted /\ StepBeforeReset(action)
    \/ \E action \in ActionArgs, r1 \in randint, r2 \in randint :
           Counted /\ StepWith(action, r1, r2)
    \/ Counted /\ GetObservation
    \/ Counted /\ render
    \/ Counted /\ close
    \/ \E k \in Keys, i \in 1 .. 2, v \in 0 .. (size - 1) :
           Counted /\ MutateObservation(k, i, v)

SpecCalls == InitCalls /\ [][NextCalls]_vars

\* A scripted run: one reset() and then steps until the episode is done,
\* as the loop at the foot of the file drives the environment.  The reset()
\* is call number 1, so that step number n is call number n + 1.
StepNumber == calls - 1

ScriptReset == calls = 0 /\ reset /\ calls' = 1

ScriptStep(action) ==
    /\ calls >= 1
    /\ ~ret.done
    /\ calls' = calls + 1
    /\ \E r1 \in randint, r2 \in randint : StepWith(action, r1, r2)

\* The stair-step run: the actions are 0, 1, 0, 1, ...
StairAction == (calls - 1) % 2

NextStair ==
    \/ ScriptReset
    \/ ScriptStep(StairAction)

SpecStair == Init /\ [][NextStair]_vars

\* The saturation run: GhostlyGridWorld(size=8), one reset() and then
\* step(0) again and again, also after a step has returned done (step() does
\* not look at it), until MaxOver steps past the wall.
InitSaturate == Construct(SaturateSize, None)

SaturateStep ==
    /\ calls >= 1
    /\ StepNumber < size - 1 + MaxOver
    /\ calls' = calls + 1
    /\ \E r1 \in randint, r2 \in randint : StepWith(0, r1, r2)

NextSaturate ==
    \/ ScriptReset
    \/ SaturateStep

SpecSaturate == InitSaturate /\ [][NextSaturate]_vars

\* A run with reads: one reset(), steps, and get_observation(), render() and
\* close() at any point of it, MaxCalls + 2 calls in all.
ReadsCounted == calls < MaxCalls + 2 /\ calls' = calls + 1

NextReads ==
    \/ ScriptReset
    \/ \E action \in randint, r1 \in randint, r2 \in randint :
           ReadsCounted /\ StepWith(action, r1, r2)
    \/ ReadsCounted /\ GetObservation
    \/ ReadsCounted /\ render
    \/ ReadsCounted /\ close

SpecReads == InitCalls /\ [][NextReads]_vars

\* One episode of the default environment under any actions: reset() and
\* then steps until one returns done, followed up to step number 2*(size-1),
\* the first on which the agent can be on the target.
EpisodeStep ==
    /\ StepNumber < 2 * (size - 1)
    /\ \E action \in randint : ScriptStep(action)

NextEpisode ==
    \/ ScriptReset
    \/ EpisodeStep

SpecEpisode == InitDefault /\ [][NextEpisode]_vars

\* ------------------------------------------------------------- properties

Returned(op) == ret.op = op /\ ret.raised = ""

InGrid(p) == p[1] \in 0 .. (size - 1) /\ p[2] \in 0 .. (size - 1)

\* C1 - Bounds invariant: once reset() has been called, through any steps
\* and ghost draws, both coordinates of the agent, of each ghost and of the
\* target lie in [0, size-1].
C1_Bounds ==
    _agent_location # NoArray =>
        /\ InGrid(_agent_location)
        /\ InGrid(_ghost1_location)
        /\ InGrid(_ghost2_location)
        /\ InGrid(_target_location)

\* a step has left the agent on the far wall, ghost1 on the near wall and
\* ghost2 on the far wall of the other axis
C1_Witness ==
    /\ Returned("step")
    /\ _agent_location[1] = size - 1
    /\ _ghost1_location[1] = 0
    /\ _ghost2_location[2] = size - 1

\* C2 - Reward exclusivity: a step() that returns gives a reward that is one
\* of -1, 0, +1, and done is true exactly when the reward is -1 or +1.
C2_RewardExclusive ==
    Returned("step") =>
        /\ ret.reward \in {0 - 1, 0, 1}
        /\ ret.done <=> ret.reward \in {0 - 1, 1}

\* each of the three rewards is returned; the witness is the rarest, +1
C2_Witness == Returned("step") /\ ret.reward = 1 /\ ret.done

C2_WitnessCaught == Returned("step") /\ ret.reward = 0 - 1 /\ ret.done

C2_WitnessNeither == Returned("step") /\ ret.reward = 0 /\ ~ret.done

\* C3 - Catch priority: when after the moves of a step the agent is where
\* ghost1 or ghost2 is, step() returns reward -1 and done, also when the
\* agent is on the target as well.
C3_CatchPriority ==
    ( /\ Returned("step")
      /\ \/ _agent_location = _ghost1_location
         \/ _agent_location = _ghost2_location )
    => (ret.reward = 0 - 1 /\ ret.done)

\* a step has left the agent on a ghost and on the target at once
C3_Witness ==
    /\ Returned("step")
    /\ _agent_location = _target_location
    /\ _agent_location = _ghost2_location
    /\ ret.reward = 0 - 1

\* C4 - Reset freshness: after every reset(), whatever came before it, the
\* agent is at (0,0), the target at (size-1, size-1) and each coordinate of
\* each ghost lies in [2, size-1].
C4_ResetFresh ==
    Returned("reset") =>
        /\ _agent_location = << 0, 0 >>
        /\ _target_location = << size - 1, size - 1 >>
        /\ \A g \in {_ghost1_location, _ghost2_location} :
               g[1] \in 2 .. (size - 1) /\ g[2] \in 2 .. (size - 1)

\* a reset() of an episode that was done, with the ghosts drawn at the two
\* ends of their region
C4_Witness ==
    /\ Returned("reset")
    /\ ret.before = "DONE"
    /\ _ghost1_location = << 2, 2 >>
    /\ _ghost2_location = << size - 1, size - 1 >>

C4_WitnessMidEpisode == Returned("reset") /\ ret.before = "ACTIVE"

C4_WitnessFirst == Returned("reset") /\ ret.before = "AWAITING_RESET"

\* C5 - Observations are independent snapshots: when the controller stores
\* a value into a coordinate of the observation that reset(), step() or
\* get_observation() returned, no location of the environment changes.
C5_Snapshot ==
    [][ \A k \in Keys, i \in 1 .. 2, v \in 0 .. (size - 1) :
          MutateObservation(k, i, v) => locations' = locations ]_vars

\* C6 - Invalid action: step(action) with an action outside {0,1,2,3} raises,
\* and no location has changed when it does.
C6_InvalidAction ==
    [][ \A action \in ActionArgs :
          (action \notin {0, 1, 2, 3} /\ step(action)) =>
              /\ ret'.op = "step"
              /\ ret'.raised # ""
              /\ locations' = locations ]_vars

\* step() has raised KeyError in an episode, the ghosts still where reset()
\* put them
C6_Witness ==
    /\ ret = Raise("step", "KeyError")
    /\ calls = 2
    /\ _agent_location = << 0, 0 >>
    /\ _ghost1_location = << 2, 2 >>
    /\ _ghost2_location = << size - 1, size - 1 >>

C7_WitnessAccepted ==
    /\ ret.op = "__init__"
    /\ ret.args = << 6, "rgb_array" >>
    /\ constructed

C7_WitnessRenderMode ==
    /\ ret.op = "__init__"
    /\ ret.args = << 6, "ansi" >>
    /\ ~constructed


\* the direction of an action and the clamp, as the claims state them
Direction(a) ==
    CASE a = 0 -> << 1, 0 >>
      [] a = 1 -> << 0, 1 >>
      [] a = 2 -> << 0 - 1, 0 >>
      [] a = 3 -> << 0, 0 - 1 >>

Clamp(v) == IF v < 0 THEN 0 ELSE IF v > size - 1 THEN size - 1 ELSE v

\* a move by d from p would leave the grid
IntoWall(p, d) == ~InGrid(<< p[1] + d[1], p[2] + d[2] >>)

\* C8 - Agent transition: step(a) puts the agent at clamp(old + d(a)), with
\* d(0) = (+1,0), d(1) = (0,+1), d(2) = (-1,0), d(3) = (0,-1) and each
\* coordinate clamped to [0, size-1], whatever the ghosts are and draw.
C8_AgentTransition ==
    [][ (ret'.op = "step" /\ ret'.raised = "") =>
          \A a \in 0 .. 3 :
              MoveAgent(a) =>
                  _agent_location' =
                      << Clamp(_agent_location[1] + Direction(a)[1]),
                         Clamp(_agent_location[2] + Direction(a)[2]) >> ]_vars

\* the first step of an episode has taken the agent from (0,0) to (0,1),
\* which only action 1 does
C8_Witness ==
    /\ Returned("step")
    /\ nsteps = 1
    /\ _agent_location = << 0, 1 >>

\* C9 - Clamp at walls: for the agent and for each ghost, a move that would
\* take a coordinate below 0 or above size-1 leaves both coordinates as they
\* were, and a step in which the agent runs into a wall is done only if the
\* agent is then on a ghost or on the target.
C9_ClampAtWalls ==
    [][ (ret'.op = "step" /\ ret'.raised = "") =>
          /\ \A a \in 0 .. 3 :
                 (MoveAgent(a) /\ IntoWall(_agent_location, Direction(a))) =>
                     /\ _agent_location' = _agent_location
                     /\ ret'.done =>
                            _agent_location' \in
                                {_ghost1_location', _ghost2_location',
                                 _target_location'}
          /\ \A r1 \in 0 .. 3 :
                 (MoveGhost1(r1) /\ IntoWall(_ghost1_location, Direction(r1))) =>
                     _ghost1_location' = _ghost1_location
          /\ \A r2 \in 0 .. 3 :
                 (MoveGhost2(r2) /\ IntoWall(_ghost2_location, Direction(r2))) =>
                     _ghost2_location' = _ghost2_location ]_vars

\* the first step of an episode has left the agent at (0,0), where action 2
\* or 3 ran it into a wall, and the episode goes on
C9_Witness ==
    /\ Returned("step")
    /\ nsteps = 1
    /\ _agent_location = << 0, 0 >>
    /\ ~ret.done

\* C10 - Goal reward on post-move positions: a step() that returns gives
\* (+1, true) exactly when the agent's position after the moves is the target
\* and is neither ghost's position after the moves, and (0, false) exactly
\* when it is none of ghost1, ghost2 and target.
C10_GoalReward ==
    Returned("step") =>
        /\ (ret.reward = 1 /\ ret.done) <=>
               /\ _agent_location = _target_location
               /\ _agent_location # _ghost1_location
               /\ _agent_location # _ghost2_location
        /\ (ret.reward = 0 /\ ~ret.done) <=>
               _agent_location \notin
                   {_ghost1_location, _ghost2_location, _target_location}

\* a step has taken the agent onto the target with no ghost there
C10_Witness ==
    /\ Returned("step")
    /\ ret.reward = 1
    /\ _agent_location = << size - 1, size - 1 >>
    /\ _ghost1_location # _agent_location
    /\ _ghost2_location # _agent_location

\* C11 - Stair-step to the goal: after reset() and the actions 0, 1, 0, 1,
\* ..., as long as no ghost has been where the agent is, every step before
\* step number 2*(size-1) returns reward 0 and done = false, and step number
\* 2*(size-1) returns reward +1 and done = true with the agent at
\* (size-1, size-1); +1 is not returned earlier.
C11_StairStep ==
    ( /\ Returned("step")
      /\ _agent_location # _ghost1_location
      /\ _agent_location # _ghost2_location )
    => /\ StepNumber <= 2 * (size - 1)
       /\ StepNumber < 2 * (size - 1) => (ret.reward = 0 /\ ~ret.done)
       /\ StepNumber = 2 * (size - 1) =>
              /\ ret.reward = 1
              /\ ret.done
              /\ _agent_location = << size - 1, size - 1 >>

\* step number 2*(size-1) of the stair has returned +1
C11_Witness ==
    /\ Returned("step")
    /\ StepNumber = 2 * (size - 1)
    /\ ret.reward = 1
    /\ ret.done
    /\ obs["agent"].val = << size - 1, size - 1 >>

Min(a, b) == IF a < b THEN a ELSE b

\* C12 - Saturation: with size = 8, after reset() and n steps of action 0
\* the agent's x is n as long as n <= size-1 and is size-1 from then on,
\* and the agent's y is 0 throughout.
C12_Saturation ==
    (ret.op \in {"reset", "step"} /\ ret.raised = "") =>
        _agent_location = << Min(StepNumber, size - 1), 0 >>

\* the agent has met the wall and MaxOver more steps of action 0 have left
\* it there
C12_Witness ==
    /\ Returned("step")
    /\ size = SaturateSize
    /\ StepNumber = size - 1 + MaxOver
    /\ _agent_location = << size - 1, 0 >>

\* C14 - Render mode is the one given at construction: the reset() of an
\* environment made with render_mode = human draws a frame, and the reset()
\* of one made with the default render_mode (None) draws no frame and
\* leaves the window and the clock unset.
C14_RenderModeGiven ==
    [][ (ret.op = "__init__" /\ ret'.op = "reset" /\ ret'.raised = "") =>
          /\ ret.args[2] = "human" => ret'.drew
          /\ ret.args[2] = None =>
                 (~ret'.drew /\ window' = None /\ clock' = None) ]_vars

\* clamp(p + d), as the claims state it
ClampVec(p, d) == << Clamp(p[1] + d[1]), Clamp(p[2] + d[2]) >>

\* C15 - Independent ghost moves: in every state in which step() can run,
\* for every action and every pair (d1, d2) of the 4 directions, the step
\* that draws d1 for ghost1 and d2 for ghost2 can be taken, it puts ghost1
\* at clamp(ghost1 + d1) and ghost2 at clamp(ghost2 + d2), each by its own
\* position and draw only, and it leaves a ghost where it was only when
\* that ghost's direction runs into a wall.
C15_IndependentGhosts ==
    (constructed /\ _agent_location # NoArray) =>
        \A a \in 0 .. 3, d1 \in 0 .. 3, d2 \in 0 .. 3 :
            ENABLED ( /\ StepWith(a, d1, d2)
                      /\ _ghost1_location' =
                             ClampVec(_ghost1_location, Direction(d1))
                      /\ _ghost2_location' =
                             ClampVec(_ghost2_location, Direction(d2))
                      /\ _ghost1_location' = _ghost1_location =>
                             IntoWall(_ghost1_location, Direction(d1))
                      /\ _ghost2_location' = _ghost2_location =>
                             IntoWall(_ghost2_location, Direction(d2)) )

\* a step has left ghost1 in the corner (0,0), where two of its four draws
\* run into a wall, and ghost2 away from the walls
C15_Witness ==
    /\ Returned("step")
    /\ _ghost1_location = << 0, 0 >>
    /\ _ghost2_location = << 2, 3 >>

\* C16 - Target is constant: in every state after the first reset(), through
\* any steps and resets, the target is at (size-1, size-1); the observation
\* a step() returns shows it there.
C16_TargetConstant ==
    _agent_location # NoArray =>
        /\ _target_location = << size - 1, size - 1 >>
        /\ Returned("step") =>
               obs["target"].val = << size - 1, size - 1 >>

\* the second step of an episode has returned, ghost2 having walked to the
\* corner (0, size-1), and the target is where reset() put it
C16_Witness ==
    /\ Returned("step")
    /\ nsteps = 2
    /\ window = "window"
    /\ _target_location = << size - 1, size - 1 >>
    /\ _ghost2_location = << 0, size - 1 >>

\* the agent is where a ghost or the target is
OnTerminalCell ==
    _agent_location \in
        {_ghost1_location, _ghost2_location, _target_location}

\* C17 - Episode lifecycle: an episode goes AWAITING_RESET -> ACTIVE -> DONE
\* and DONE is left only via reset(): once a step() has returned done =
\* true, no step() returns done = false until reset() is called.
C17_Lifecycle ==
    [][ /\ Phase' = "AWAITING_RESET" => Phase = "AWAITING_RESET"
        /\ Phase = "AWAITING_RESET" => Phase' # "DONE"
        /\ (Phase = "DONE" /\ Phase' # "DONE") => ret'.op = "reset"
        /\ (Phase = "DONE" /\ ret'.op = "step") => ret'.done ]_vars

\* C17, amended - an episode goes AWAITING_RESET -> ACTIVE -> DONE, reset()
\* always leads to ACTIVE, and DONE is left via reset() or by a step() made
\* on the done episode, which the environment does not refuse: such a step
\* returns done = false exactly when after its moves the agent is on
\* neither ghost nor on the target.
C17_LifecycleUnguarded ==
    [][ /\ Phase' = "AWAITING_RESET" => Phase = "AWAITING_RESET"
        /\ Phase = "AWAITING_RESET" => Phase' # "DONE"
        /\ (Phase = "AWAITING_RESET" /\ Phase' = "ACTIVE") => ret'.op = "reset"
        /\ (ret'.op = "reset" /\ ret'.raised = "") => Phase' = "ACTIVE"
        /\ (Phase = "DONE" /\ Phase' # "DONE") =>
               \/ ret'.op = "reset"
               \/ ret'.op = "step" /\ ~OnTerminalCell'
        /\ (Phase = "DONE" /\ ret'.op = "step") =>
               (ret'.done <=> OnTerminalCell') ]_vars

\* a done episode has been left by reset(), and the new one is active
C17_Witness ==
    /\ Returned("reset")
    /\ ret.before = "DONE"
    /\ Phase = "ACTIVE"
    /\ window = "window"

\* C18 - Read-only operations: get_observation(), render() and close()
\* leave the positions of agent, ghost1, ghost2 and target as they were;
\* what get_observation() returns has exactly the keys agent, ghost1,
\* ghost2, target with the current positions as values, and what step()
\* returns holds the positions after the moves of that step.
C18_ReadOnly ==
    [][ /\ ret'.op \in {"get_observation", "render", "close"} =>
               locations' = locations
        /\ (ret'.op \in {"get_observation", "step"} /\ ret'.raised = "") =>
               /\ DOMAIN obs' = {"agent", "ghost1", "ghost2", "target"}
               /\ obs'["agent"].val = _agent_location'
               /\ obs'["ghost1"].val = _ghost1_location'
               /\ obs'["ghost2"].val = _ghost2_location'
               /\ obs'["target"].val = _target_location' ]_vars

\* get_observation() has returned after the first step of an episode, the
\* two ghosts being in different cells
C18_Witness ==
    /\ Returned("get_observation")
    /\ nsteps = 1
    /\ _agent_location = << 1, 0 >>
    /\ _ghost1_location # _ghost2_location
    /\ obs["ghost1"].val = _ghost1_location

\* C19 - No immediate termination after reset: reset() leaves the agent on
\* neither ghost nor on the target, the first step() after a reset() never
\* returns reward -1, whatever the action and the ghost draws, and no step
\* before step number 2*(size-1) returns reward +1.
C19_NoImmediateEnd ==
    /\ Returned("reset") =>
           _agent_location \notin
               {_ghost1_location, _ghost2_location, _target_location}
    /\ (Returned("step") /\ StepNumber = 1) => ret.reward # 0 - 1
    /\ (Returned("step") /\ StepNumber < 2 * (size - 1)) => ret.reward # 1

\* the agent has got to the target by the shortest way, step number
\* 2*(size-1) returning +1, while ghost1 was back where it can start
C19_Witness ==
    /\ Returned("step")
    /\ StepNumber = 2 * (size - 1)
    /\ ret.reward = 1
    /\ _ghost1_location = << 2, 2 >>

====
